---- MODULE Spec2Model ----
(***************************************************************************)
(* The rate-limited paginated fetch engine of src/app/main.py:             *)
(* make_request (sliding-window limiter + HTTP GET with 404 handling),     *)
(* fetch_studies (pagination loop), get_study_details (single-entity       *)
(* caller of make_request) and _group_by_field (local aggregation).        *)
(*                                                                         *)
(* Time is counted in whole seconds.  One flow of control runs the tools;  *)
(* the clock and the upstream registry are the environment.                *)
(***************************************************************************)
EXTENDS Integers, Sequences, FiniteSets, TLC

(***************************************************************************)
(* Program constants.                                                      *)
(***************************************************************************)
RATE_LIMIT == 100
WINDOW == 60
MAX_PAGE_SIZE == 1000

(***************************************************************************)
(* Bounds of the model.                                                    *)
(***************************************************************************)
MaxTicks == 1
MaxRequests == 3
MaxRuns == 2
MaxOversleep == 1
MaxStudies == 3

NoToken == 0

Min(a, b) == IF a < b THEN a ELSE b

\* records of the first i pages of a page history
RECURSIVE Served(_, _)
Served(pages, i) == IF i = 0 THEN 0 ELSE pages[i].n + Served(pages, i - 1)

Last(s) == s[Len(s)]

(***************************************************************************)
(* Environment inputs.                                                     *)
(***************************************************************************)
\* seconds by which the clock may advance between two steps of the flow
TickSteps == {1, 59}
\* the limit argument of fetch_studies
Limits == {-1, 0, 2, 250, 1001}
\* number of records the upstream holds for a query
Totals == {0, 3, 250, 3000}

VARIABLES
    clock,               \* time.time()
    request_timestamps,  \* the module-level deque
    pc,                  \* position of the flow
    caller,              \* "fetch" | "details" | "none": who called make_request
    endpoint,            \* "/studies" | "/studies/ID" | "none"
    current_time,        \* make_request's local
    limit, all_studies, total_count, next_page_token, params,  \* fetch_studies' locals
    data,                \* value returned by make_request
    ret,                 \* value returned (or error raised) by the tool-level call
    upTotal,             \* records the upstream holds for the running query
    hist,                \* history of the running tool-level call
    budget,              \* [ticks, requests, runs] consumed so far
    agg,                 \* _group_by_field: [studies, field, groups, i]
    flows                \* callers that run make_request side by side

vars == <<clock, request_timestamps, pc, caller, endpoint, current_time,
          limit, all_studies, total_count, next_page_token, params,
          data, ret, upTotal, hist, budget, agg, flows>>


(***************************************************************************)
(* Values.                                                                 *)
(***************************************************************************)
NoData == [kind |-> "unset", studies |-> <<>>, totalCount |-> 0, nextPageToken |-> NoToken]
\* Python's None, returned for a 404 on '/studies/<id>'
NoneValue == [kind |-> "None", studies |-> <<>>, totalCount |-> 0, nextPageToken |-> NoToken]
\* {"studies": [], "totalCount": 0}
EmptyCollection == [kind |-> "collection", studies |-> <<>>, totalCount |-> 0, nextPageToken |-> NoToken]
\* the study object that GET /studies/<id> answers with
StudyObject == [kind |-> "study", studies |-> <<>>, totalCount |-> 0, nextPageToken |-> NoToken]

NoRet == [kind |-> "unset", studies |-> <<>>, totalCount |-> 0]
ErrorRet == [kind |-> "error", studies |-> <<>>, totalCount |-> 0]

NoParams == [pageSize |-> 0, pageToken |-> NoToken]

\* {}: the empty dict
EmptyDict == <<>>

NoAgg == [studies |-> <<>>, field |-> "none", groups |-> EmptyDict, i |-> 0]

\* no flow other than the one of pc is inside make_request
NoFlows == [useLock |-> FALSE, holder |-> 0, ver |-> 0, f |-> <<>>]

NoHist == [slept |-> 0, waited |-> 0, seenLen |-> 0, seenOldest |-> 0, seenNow |-> 0,
           stamp |-> 0, calls |-> 0, appends |-> 0, gets |-> 0, failedAt |-> 0,
           pages |-> <<>>, outcomes |-> <<>>,
           emptyMid |-> FALSE, trailingTok |-> FALSE, oversize |-> FALSE]

\* the upstream's records are numbered 1, 2, ... in its own order
Ids(from, k) == [i \in 1..k |-> from + i]

\* a continuation token is an opaque non-empty value standing for a position
Tok(pos) == pos + 1
PosOf(tok) == IF tok = NoToken THEN 0 ELSE tok - 1

(***************************************************************************)
(* make_request, lines 38-55: the limiter.                                 *)
(***************************************************************************)
\* lines 40-41 and 51-52: popleft while the front is older than the window
Prune(q, now) ==
    LET Expired(i) == now - q[i] > WINDOW
        popped == CHOOSE n \in 0..Len(q) :
                      /\ \A i \in 1..n : Expired(i)
                      /\ n < Len(q) => ~Expired(n + 1)
    IN  SubSeq(q, popped + 1, Len(q))

\* the limit test of line 44 written with > for >=
AtLimitStrict(q) == Len(q) > RATE_LIMIT

\* line 44
AtLimit(q) == Len(q) >= RATE_LIMIT

\* line 46
WaitTime(q, now) == WINDOW - (now - Head(q))

\* a entries stamped 0 followed by b entries stamped 1
Preload(a, b) == [i \in 1..(a + b) |-> IF i <= a THEN 0 ELSE 1]

\* Queues that a + b earlier requests (a at second 0, b at second 1, a + b at
\* most RATE_LIMIT, so that none of them waited) leave behind at second 1.
PreloadShapes ==
    { <<RATE_LIMIT, 0>>, <<1, RATE_LIMIT - 1>>, <<RATE_LIMIT - 1, 0>> }

\* the flow is idle and no tool-level call has run yet
IdleState ==
    /\ pc = "idle"
    /\ caller = "none"
    /\ endpoint = "none"
    /\ current_time = 0
    /\ limit = 0
    /\ all_studies = <<>>
    /\ total_count = 0
    /\ next_page_token = NoToken
    /\ params = NoParams
    /\ data = NoData
    /\ ret = NoRet
    /\ upTotal = 0
    /\ hist = NoHist
    /\ budget = [ticks |-> 0, requests |-> 0, runs |-> 0]

\* line 29: the state after the module is loaded
Init ==
    /\ clock = 1
    /\ request_timestamps = <<>>
    /\ IdleState
    /\ agg = NoAgg
    /\ flows = NoFlows

\* the server has already answered a burst of requests
InitBusy ==
    /\ clock = 1
    /\ \E sh \in PreloadShapes : request_timestamps = Preload(sh[1], sh[2])
    /\ IdleState
    /\ agg = NoAgg
    /\ flows = NoFlows

\* The positions whose next step reads the clock with time.time() (lines 39 and
\* 55).  No other step reads it, so time that passes elsewhere is time that
\* passes just before the next of these; time that passes before the sleep of
\* line 48 makes the flow wake later, which MR_Check's oversleep stands for.
ClockReaders == {"mr_prune", "mr_append"}

\* the clock advances on its own
Tick ==
    /\ UNCHANGED <<agg, flows>>
    /\ budget.ticks < MaxTicks
    /\ pc \in ClockReaders
    /\ \E d \in TickSteps : clock' = clock + d
    /\ budget' = [budget EXCEPT !.ticks = @ + 1]
    /\ UNCHANGED <<request_timestamps, pc, caller, endpoint, current_time, limit,
                   all_studies, total_count, next_page_token, params, data, ret,
                   upTotal, hist>>

\* entry of make_request (called at line 99 or line 219)
EnterMakeRequest(newRuns) ==
    /\ budget.requests < MaxRequests
    /\ budget' = [budget EXCEPT !.requests = @ + 1, !.runs = @ + newRuns]
    /\ hist' = [hist EXCEPT !.calls = @ + 1, !.slept = 0, !.waited = 0]
    /\ pc' = "mr_prune"

\* lines 39-41
MR_Prune ==
    /\ UNCHANGED <<agg, flows>>
    /\ pc = "mr_prune"
    /\ current_time' = clock
    /\ request_timestamps' = Prune(request_timestamps, clock)
    /\ pc' = "mr_check"
    /\ UNCHANGED <<clock, caller, endpoint, limit, all_studies, total_count,
                   next_page_token, params, data, ret, upTotal, hist, budget>>

\* line 44 written as a loop: while len(request_timestamps) >= 100
AfterCheckWhile(q) == IF Len(q) >= RATE_LIMIT THEN "mr_check" ELSE "mr_append"

\* lines 44-55: the limit is tested once, line 55 follows whatever the queue holds
AfterCheck(q) == "mr_append"

\* lines 44-52
MR_Check ==
    /\ UNCHANGED <<agg, flows>>
    /\ pc = "mr_check"
    /\ IF AtLimit(request_timestamps) /\ WaitTime(request_timestamps, current_time) > 0
       THEN \E over \in 0..MaxOversleep :
              LET wait == WaitTime(request_timestamps, current_time)
                  woke == clock + wait + over
              IN  /\ clock' = woke
                  /\ current_time' = woke
                  /\ request_timestamps' = Prune(request_timestamps, woke)
                  /\ hist' = [hist EXCEPT !.slept = @ + 1, !.waited = wait,
                                          !.seenLen = Len(request_timestamps),
                                          !.seenOldest = Head(request_timestamps),
                                          !.seenNow = current_time]
       ELSE /\ UNCHANGED <<clock, current_time, request_timestamps>>
            /\ hist' = [hist EXCEPT !.seenLen = Len(request_timestamps),
                                    !.seenOldest = IF request_timestamps = <<>> THEN 0
                                                   ELSE Head(request_timestamps),
                                    !.seenNow = current_time]
    /\ pc' = AfterCheck(request_timestamps')
    /\ UNCHANGED <<caller, endpoint, limit, all_studies, total_count,
                   next_page_token, params, data, ret, upTotal, budget>>

\* line 55 written with appendleft
StampedFront(q, now) == <<now>> \o q

\* line 55 skipped when the queue is full
StampedUnlessFull(q, now) == IF Len(q) >= RATE_LIMIT THEN q ELSE Append(q, now)

\* line 55
Stamped(q, now) == Append(q, now)

MR_Append ==
    /\ UNCHANGED <<agg, flows>>
    /\ pc = "mr_append"
    /\ request_timestamps' = Stamped(request_timestamps, clock)
    /\ hist' = [hist EXCEPT !.appends = @ + Len(request_timestamps') - Len(request_timestamps),
                            !.stamp = clock]
    /\ pc' = "mr_get"
    /\ UNCHANGED <<clock, caller, endpoint, current_time, limit, all_studies,
                   total_count, next_page_token, params, data, ret, upTotal, budget>>

(***************************************************************************)
(* make_request, lines 57-80: the HTTP GET and its outcomes.               *)
(***************************************************************************)
\* where make_request's return value is consumed: line 100 or line 221
AfterReturn == IF caller = "fetch" THEN "fs_page" ELSE "gd_ret"

\* lines 68-71 with the endpoint test inverted
NotFoundSwapped(ep) == IF ep = "/studies/ID" THEN EmptyCollection ELSE NoneValue

\* lines 66-71 (and 76-79): the value a 404 is turned into
NotFoundValue(ep) == IF ep = "/studies/ID" THEN NoneValue ELSE EmptyCollection

\* page lengths the upstream may answer with, given the requested pageSize and
\* the number of records it still holds after the requested position: the
\* registry's own answer min(pageSize, records left), shorter pages, an empty
\* page, and a page longer than asked for
PageLens(ps, avail) ==
    { k \in {0, 1, 50, 100, ps, ps + 1, Min(ps, avail)} : k >= 0 /\ k <= avail }

\* lines 59-74: status 200 with a JSON body
HttpOk ==
    /\ UNCHANGED <<agg, flows>>
    /\ pc = "mr_get"
    /\ pc' = AfterReturn
    /\ IF endpoint = "/studies/ID"
       THEN /\ data' = StudyObject
            /\ hist' = [hist EXCEPT !.gets = @ + 1, !.outcomes = Append(@, "ok")]
       ELSE LET pos == PosOf(params.pageToken)
                avail == IF pos < upTotal THEN upTotal - pos ELSE 0
            IN  \E k \in PageLens(params.pageSize, avail) :
                \E tok \in BOOLEAN :
                  \* a page that does not end the upstream's records carries a token
                  /\ (pos + k < upTotal => tok)
                  /\ data' = [kind |-> "collection", studies |-> Ids(pos, k),
                              totalCount |-> upTotal,
                              nextPageToken |-> IF tok THEN Tok(pos + k) ELSE NoToken]
                  /\ hist' = [hist EXCEPT !.gets = @ + 1,
                                !.outcomes = Append(@, "ok"),
                                !.pages = Append(@, [n |-> k, tok |-> tok,
                                                     size |-> params.pageSize,
                                                     sent |-> params.pageToken,
                                                     next |-> IF tok THEN Tok(pos + k)
                                                              ELSE NoToken]),
                                !.emptyMid = @ \/ (k = 0 /\ pos < upTotal),
                                !.trailingTok = @ \/ (tok /\ pos + k >= upTotal),
                                !.oversize = @ \/ (k > params.pageSize)]
    /\ UNCHANGED <<clock, request_timestamps, caller, endpoint, current_time, limit,
                   all_studies, total_count, next_page_token, params, ret, upTotal,
                   budget>>

\* lines 66-71: status 404
Http404 ==
    /\ UNCHANGED <<agg, flows>>
    /\ pc = "mr_get"
    /\ pc' = AfterReturn
    /\ data' = NotFoundValue(endpoint)
    /\ hist' = [hist EXCEPT !.gets = @ + 1, !.outcomes = Append(@, "404"),
                            !.pages = Append(@, [n |-> 0, tok |-> FALSE,
                                                 size |-> params.pageSize,
                                                 sent |-> params.pageToken,
                                                 next |-> NoToken])]
    /\ UNCHANGED <<clock, request_timestamps, caller, endpoint, current_time, limit,
                   all_studies, total_count, next_page_token, params, ret, upTotal,
                   budget>>

\* the error swallowed and the pages read so far returned
RaisedPartial(studies, count) == [kind |-> "result", studies |-> studies, totalCount |-> count]

\* line 80 raises and no caller catches: what the tool-level call yields when
\* all_studies and total_count hold the pages read so far
Raised(studies, count) == ErrorRet

\* lines 73-80: timeout, connection error, 5xx or a body that is not JSON:
\* RuntimeError is raised; neither fetch_studies nor get_study_details catches it
HttpError ==
    /\ UNCHANGED <<agg, flows>>
    /\ pc = "mr_get"
    /\ pc' = "done"
    /\ ret' = Raised(all_studies, total_count)
    /\ hist' = [hist EXCEPT !.gets = @ + 1, !.outcomes = Append(@, "error"),
                            !.failedAt = hist.gets + 1]
    /\ UNCHANGED <<clock, request_timestamps, caller, endpoint, current_time, limit,
                   all_studies, total_count, next_page_token, params, data, upTotal,
                   budget>>

(***************************************************************************)
(* fetch_studies, lines 82-114.                                            *)
(***************************************************************************)
\* line 94 without the ceiling
PageSizeUncapped(lim, have) == lim - have

\* line 94
PageSize(lim, have) == Min(lim - have, MAX_PAGE_SIZE)

\* line 91 written with <= for <
WantsMoreInclusive(have, lim) == have <= lim

\* line 91: the loop test
WantsMore(have, lim) == have < lim

\* lines 96-97 never attaching the token
PageTokenKept(next, old) == old

\* lines 96-97: the pageToken parameter of the next request
PageToken(next, old) == IF next # NoToken THEN next ELSE old

\* line 114
FetchResult(studies, count) == [kind |-> "result", studies |-> studies, totalCount |-> count]

\* a tool calls fetch_studies('/studies', params, limit): lines 84-89
CallFetch ==
    /\ UNCHANGED <<agg, flows>>
    /\ pc = "idle"
    /\ budget.runs < MaxRuns
    /\ \E l \in Limits : limit' = l
    /\ \E n \in Totals : upTotal' = n
    /\ caller' = "fetch"
    /\ endpoint' = "/studies"
    /\ all_studies' = <<>>
    /\ total_count' = 0
    /\ next_page_token' = NoToken
    /\ params' = NoParams
    /\ pc' = "fs_loop"
    /\ budget' = [budget EXCEPT !.runs = @ + 1]
    /\ UNCHANGED <<clock, request_timestamps, current_time, data, ret, hist>>

\* lines 91-99: the loop test, the page parameters and the call of make_request
FS_Request ==
    /\ UNCHANGED <<agg, flows>>
    /\ pc = "fs_loop"
    /\ WantsMore(Len(all_studies), limit)
    /\ params' = [pageSize |-> PageSize(limit, Len(all_studies)),
                  pageToken |-> PageToken(next_page_token, params.pageToken)]
    /\ EnterMakeRequest(0)
    /\ UNCHANGED <<clock, request_timestamps, caller, endpoint, current_time, limit,
                   all_studies, total_count, next_page_token, data, ret, upTotal>>

\* lines 91 and 114: the loop test fails and the result is returned
FS_Return ==
    /\ UNCHANGED <<agg, flows>>
    /\ pc = "fs_loop"
    /\ ~WantsMore(Len(all_studies), limit)
    /\ ret' = FetchResult(all_studies, total_count)
    /\ pc' = "done"
    /\ UNCHANGED <<clock, request_timestamps, caller, endpoint, current_time, limit,
                   all_studies, total_count, next_page_token, params, data, upTotal,
                   hist, budget>>

\* lines 102-103 left out
ExhaustedIgnored(studies) == FALSE

\* line 102
Exhausted(studies) == studies = <<>>

\* line 107 putting the new page in front
ExtendFront(acc, studies) == studies \o acc

\* line 107
Extend(acc, studies) == acc \o studies

\* line 108 taking the upstream's reported total
UpstreamTotal(count, page) == page.totalCount

\* line 108
NewTotalCount(count, page) == count + Len(page.studies)

\* lines 111-112 left out
NoMorePagesIgnored(tok) == FALSE

\* line 111
NoMorePages(tok) == tok = NoToken

\* lines 100-114: one page is consumed
FS_Page ==
    /\ UNCHANGED <<agg, flows>>
    /\ pc = "fs_page"
    /\ IF data.kind = "None"
       THEN \* line 100: None has no get(); AttributeError leaves fetch_studies
            /\ ret' = ErrorRet
            /\ pc' = "done"
            /\ UNCHANGED <<all_studies, total_count, next_page_token>>
       ELSE IF Exhausted(data.studies)
       THEN \* lines 102-103, 114
            /\ ret' = FetchResult(all_studies, total_count)
            /\ pc' = "done"
            /\ UNCHANGED <<all_studies, total_count, next_page_token>>
       ELSE /\ next_page_token' = data.nextPageToken
            /\ all_studies' = Extend(all_studies, data.studies)
            /\ total_count' = NewTotalCount(total_count, data)
            /\ IF NoMorePages(data.nextPageToken)
               THEN \* lines 111-112, 114
                    /\ ret' = FetchResult(all_studies', total_count')
                    /\ pc' = "done"
               ELSE /\ pc' = "fs_loop"
                    /\ UNCHANGED ret
    /\ UNCHANGED <<clock, request_timestamps, caller, endpoint, current_time, limit,
                   params, data, upTotal, hist, budget>>

(***************************************************************************)
(* get_study_details, lines 205-227 (the NCT id is well-formed).           *)
(***************************************************************************)
\* lines 218-219
CallDetails ==
    /\ UNCHANGED <<agg, flows>>
    /\ pc = "idle"
    /\ budget.runs < MaxRuns
    /\ caller' = "details"
    /\ endpoint' = "/studies/ID"
    /\ params' = NoParams
    /\ EnterMakeRequest(1)
    /\ UNCHANGED <<clock, request_timestamps, current_time, limit, all_studies,
                   total_count, next_page_token, data, ret, upTotal>>

\* lines 221-227
GD_Return ==
    /\ UNCHANGED <<agg, flows>>
    /\ pc = "gd_ret"
    /\ ret' = IF data.kind = "None"
              THEN [kind |-> "notfound", studies |-> <<>>, totalCount |-> 0]
              ELSE [kind |-> "details", studies |-> <<>>, totalCount |-> 0]
    /\ pc' = "done"
    /\ UNCHANGED <<clock, request_timestamps, caller, endpoint, current_time, limit,
                   all_studies, total_count, next_page_token, params, data, upTotal,
                   hist, budget>>

\* the tool-level call has returned; its locals are gone
Finish ==
    /\ UNCHANGED <<agg, flows>>
    /\ pc = "done"
    /\ pc' = "idle"
    /\ caller' = "none"
    /\ endpoint' = "none"
    /\ current_time' = 0
    /\ limit' = 0
    /\ all_studies' = <<>>
    /\ total_count' = 0
    /\ next_page_token' = NoToken
    /\ params' = NoParams
    /\ data' = NoData
    /\ ret' = NoRet
    /\ upTotal' = 0
    /\ hist' = NoHist
    /\ UNCHANGED <<clock, request_timestamps, budget>>

Next ==
    \/ Tick
    \/ CallFetch
    \/ FS_Request
    \/ FS_Return
    \/ FS_Page
    \/ CallDetails
    \/ GD_Return
    \/ MR_Prune
    \/ MR_Check
    \/ MR_Append
    \/ HttpOk
    \/ Http404
    \/ HttpError
    \/ Finish

Spec == Init /\ [][Next]_vars

\* a server that is asked for single studies only, after a burst of requests
NextLimiter ==
    \/ Tick
    \/ CallDetails
    \/ GD_Return
    \/ MR_Prune
    \/ MR_Check
    \/ MR_Append
    \/ HttpOk
    \/ Http404
    \/ HttpError
    \/ Finish

SpecLimiter == InitBusy /\ [][NextLimiter]_vars

\* a call that entered make_request runs its statements to the end: each of
\* lines 39-55 is executed once control reaches it, and time.sleep returns
SpecLimiterFair ==
    /\ SpecLimiter
    /\ WF_vars(MR_Prune) /\ WF_vars(MR_Check) /\ WF_vars(MR_Append)

(***************************************************************************)
(* _group_by_field, lines 348-366.                                         *)
(***************************************************************************)
\* a key that the record does not have
Absent == "<absent>"

\* Study records as far as _group_by_field reads them: overallStatus, phases,
\* studyType, conditions and the lead sponsor's name, each present or not.
StudyCatalogue ==
    { [status |-> "RECRUITING", phases |-> <<"PHASE1">>, studyType |-> "INTERVENTIONAL",
       conditions |-> <<"Diabetes">>, sponsor |-> "NIH"],
      [status |-> "COMPLETED", phases |-> <<"PHASE2", "PHASE3">>, studyType |-> "OBSERVATIONAL",
       conditions |-> <<"Asthma", "Diabetes">>, sponsor |-> "Acme"],
      [status |-> "RECRUITING", phases |-> <<>>, studyType |-> Absent,
       conditions |-> <<>>, sponsor |-> Absent],
      [status |-> Absent, phases |-> <<>>, studyType |-> Absent,
       conditions |-> <<>>, sponsor |-> Absent] }

\* the field names callers pass, and one that is not supported
GroupFields == {"status", "phase", "studyType", "condition", "sponsor", "country"}

StudyLists == UNION { [1..m -> StudyCatalogue] : m \in 0..MaxStudies }

\* dict.get(key, default) on a key that may be absent
GetOr(v, default) == IF v = Absent THEN default ELSE v

\* lines 352-364: the group key of one study
GroupKey(study, field) ==
    CASE field = "status" -> GetOr(study.status, "Unknown")
      [] field = "phase" -> IF study.phases # <<>> THEN study.phases[1] ELSE "Not specified"
      [] field = "studyType" -> GetOr(study.studyType, "Unknown")
      [] field = "condition" ->
            IF study.conditions # <<>> THEN study.conditions[1] ELSE "Not specified"
      [] field = "sponsor" -> GetOr(study.sponsor, "Not specified")
      [] OTHER -> "Unknown"

\* line 365 forgetting the count so far
CountedAfresh(groups, value) ==
    [k \in DOMAIN groups \cup {value} |-> IF k = value THEN 1 ELSE groups[k]]

\* line 365: groups[value] = groups.get(value, 0) + 1
Counted(groups, value) ==
    [k \in DOMAIN groups \cup {value} |->
        (IF k \in DOMAIN groups THEN groups[k] ELSE 0) + (IF k = value THEN 1 ELSE 0)]

\* lines 350-365: one turn of the loop
GroupStep ==
    /\ agg.i < Len(agg.studies)
    /\ agg' = [agg EXCEPT !.i = @ + 1,
                          !.groups = Counted(@, GroupKey(agg.studies[agg.i + 1], agg.field))]
    /\ UNCHANGED <<clock, request_timestamps, pc, caller, endpoint, current_time,
                   limit, all_studies, total_count, next_page_token, params,
                   data, ret, upTotal, hist, budget, flows>>

\* _group_by_field(studies, field) is called
InitGroup ==
    /\ clock = 1
    /\ request_timestamps = <<>>
    /\ IdleState
    /\ \E st \in StudyLists : \E f \in GroupFields :
          agg = [studies |-> st, field |-> f, groups |-> EmptyDict, i |-> 0]
    /\ flows = NoFlows

SpecGroup == InitGroup /\ [][GroupStep]_vars

RECURSIVE SumCounts(_, _)
SumCounts(groups, keys) ==
    IF keys = {} THEN 0
    ELSE LET k == CHOOSE x \in keys : TRUE
         IN  groups[k] + SumCounts(groups, keys \ {k})

(***************************************************************************)
(* make_request, lines 29-55, entered by two flows that share the deque.   *)
(* A flow is switched out only between statements.  Each flow has its own  *)
(* current_time; the deque and the clock are shared.  flows.ver counts the *)
(* changes made to the deque, so that two flows that tested the length at  *)
(* the same ver tested the same content.                                   *)
(***************************************************************************)
FlowIds == {1, 2}

\* the prune-check-wait-append sequence may be entered
LockFree(fl) == ~fl.useLock \/ fl.holder = 0

\* the holder of the lock after flow f entered the sequence
Acquired(fl, f) == IF fl.useLock THEN f ELSE fl.holder

\* the holder of the lock after flow f left the sequence
Released(fl, f) == IF fl.useLock THEN 0 ELSE fl.holder

FlowIdle == [pc |-> "idle", now |-> 0, seenVer |-> 0, seenLen |-> 0,
             slept |-> FALSE, calls |-> 0]

\* two callers find the queue that a burst of requests left behind
InitConc ==
    /\ clock = 1
    /\ \E sh \in PreloadShapes : request_timestamps = Preload(sh[1], sh[2])
    /\ IdleState
    /\ agg = NoAgg
    /\ \E lk \in BOOLEAN :
          flows = [useLock |-> lk, holder |-> 0, ver |-> 0,
                   f |-> [i \in FlowIds |-> FlowIdle]]

\* line 31: flow f calls make_request
CC_Enter(f) ==
    /\ flows.f[f].pc = "idle"
    /\ flows.f[f].calls < MaxRuns
    /\ LockFree(flows)
    /\ flows' = [flows EXCEPT !.holder = Acquired(flows, f),
                              !.f[f] = [pc |-> "mr_prune", now |-> 0, seenVer |-> 0 - f,
                                        seenLen |-> 0, slept |-> FALSE,
                                        calls |-> @.calls + 1]]
    /\ UNCHANGED <<clock, request_timestamps, pc, caller, endpoint, current_time,
                   limit, all_studies, total_count, next_page_token, params,
                   data, ret, upTotal, hist, budget, agg>>

\* lines 39-41
CC_Prune(f) ==
    /\ flows.f[f].pc = "mr_prune"
    /\ request_timestamps' = Prune(request_timestamps, clock)
    /\ flows' = [flows EXCEPT !.ver = IF request_timestamps' = request_timestamps
                                      THEN @ ELSE @ + 1,
                              !.f[f].now = clock,
                              !.f[f].pc = "mr_check"]
    /\ UNCHANGED <<clock, pc, caller, endpoint, current_time,
                   limit, all_studies, total_count, next_page_token, params,
                   data, ret, upTotal, hist, budget, agg>>

\* lines 44-52
CC_Check(f) ==
    /\ flows.f[f].pc = "mr_check"
    /\ IF AtLimit(request_timestamps) /\ WaitTime(request_timestamps, flows.f[f].now) > 0
       THEN \E over \in 0..MaxOversleep :
              LET wait == WaitTime(request_timestamps, flows.f[f].now)
                  woke == clock + wait + over
              IN  /\ clock' = woke
                  /\ request_timestamps' = Prune(request_timestamps, woke)
                  /\ flows' = [flows EXCEPT
                                  !.ver = IF request_timestamps' = request_timestamps
                                          THEN @ ELSE @ + 1,
                                  !.f[f].now = woke,
                                  !.f[f].seenVer = flows.ver,
                                  !.f[f].seenLen = Len(request_timestamps),
                                  !.f[f].slept = TRUE,
                                  !.f[f].pc = AfterCheck(request_timestamps')]
       ELSE /\ UNCHANGED <<clock, request_timestamps>>
            /\ flows' = [flows EXCEPT
                            !.f[f].seenVer = flows.ver,
                            !.f[f].seenLen = Len(request_timestamps),
                            !.f[f].pc = AfterCheck(request_timestamps)]
    /\ UNCHANGED <<pc, caller, endpoint, current_time,
                   limit, all_studies, total_count, next_page_token, params,
                   data, ret, upTotal, hist, budget, agg>>

\* line 55
CC_Append(f) ==
    /\ flows.f[f].pc = "mr_append"
    /\ request_timestamps' = Stamped(request_timestamps, clock)
    /\ flows' = [flows EXCEPT !.ver = IF request_timestamps' = request_timestamps
                                      THEN @ ELSE @ + 1,
                              !.holder = Released(flows, f),
                              !.f[f].pc = "mr_get"]
    /\ UNCHANGED <<clock, pc, caller, endpoint, current_time,
                   limit, all_studies, total_count, next_page_token, params,
                   data, ret, upTotal, hist, budget, agg>>

\* lines 57-80: the GET and the return, which do not touch the deque
CC_Return(f) ==
    /\ flows.f[f].pc = "mr_get"
    /\ flows' = [flows EXCEPT !.f[f].pc = "idle"]
    /\ UNCHANGED <<clock, request_timestamps, pc, caller, endpoint, current_time,
                   limit, all_studies, total_count, next_page_token, params,
                   data, ret, upTotal, hist, budget, agg>>

NextConc ==
    \E f \in FlowIds :
        \/ CC_Enter(f)
        \/ CC_Prune(f)
        \/ CC_Check(f)
        \/ CC_Append(f)
        \/ CC_Return(f)

SpecConc == InitConc /\ [][NextConc]_vars

(***************************************************************************)
(* Properties.                                                             *)
(***************************************************************************)
\* timestamps of the queue that are younger than the window at the present clock
Unexpired == { i \in DOMAIN request_timestamps : clock - request_timestamps[i] < WINDOW }

FetchDone == pc = "done" /\ caller = "fetch"

\* C1: at every instant the queue holds at most 100 timestamps younger than 60
\* seconds, whatever the spacing of the make_request calls.
C1_WindowBound == Cardinality(Unexpired) <= RATE_LIMIT

\* C2: the 'studies' list that fetch_studies returns is never longer than limit,
\* for every limit >= 0 and every upstream page sequence.
C2_AtMostLimit ==
    (FetchDone /\ ret.kind = "result" /\ limit >= 0) => Len(ret.studies) <= limit

\* the upstream answered with pages only, and the page that ended its records
\* carried no continuation token
PlainUpstream == ~hist.trailingTok /\ \A i \in DOMAIN hist.outcomes : hist.outcomes[i] = "ok"

\* C3 as claimed: when the upstream holds n < limit records and its last page
\* carries no continuation token, fetch_studies returns exactly those n records
\* in upstream page order.
C3_AllRecords ==
    (FetchDone /\ ret.kind = "result" /\ upTotal < limit /\ PlainUpstream)
        => ret.studies = Ids(0, upTotal)

\* C3 as amended: when the upstream holds n < limit records, none of its pages is
\* empty while records remain and its last page carries no continuation token,
\* fetch_studies returns exactly those n records in upstream page order, and the
\* loop goes on only after a page that carried a token.
C3_AllRecordsNoEmptyPage ==
    /\ (FetchDone /\ ret.kind = "result" /\ upTotal < limit /\ PlainUpstream
            /\ ~hist.emptyMid)
         => ret.studies = Ids(0, upTotal)
    /\ (pc = "fs_loop" /\ hist.pages # <<>>) => Last(hist.pages).tok

C3_Witness ==
    /\ FetchDone /\ ret.kind = "result" /\ PlainUpstream /\ ~hist.emptyMid
    /\ limit = 250 /\ upTotal = 3 /\ Len(hist.pages) = 3
    /\ ret.studies = <<1, 2, 3>>

C5_FailFast ==
    hist.failedAt > 0 =>
        /\ pc = "done"
        /\ ret.kind = "error"
        /\ ret.studies = <<>>
        /\ hist.gets = hist.failedAt
        /\ hist.calls = hist.failedAt

C5_Witness ==
    /\ FetchDone /\ hist.failedAt = 2 /\ Len(all_studies) > 0 /\ ret.kind = "error"

\* C6: after _group_by_field has examined k records the counts of its mapping sum
\* to k, every count is at least 1, and a field that is not supported puts all k
\* records into the one group "Unknown".
C6_CountsSumToK ==
    /\ SumCounts(agg.groups, DOMAIN agg.groups) = agg.i
    /\ \A k \in DOMAIN agg.groups : agg.groups[k] >= 1
    /\ (agg.field = "country" /\ agg.i > 0) =>
          /\ DOMAIN agg.groups = {"Unknown"}
          /\ agg.groups["Unknown"] = agg.i

C6_Witness ==
    /\ agg.field = "country" /\ agg.i = Len(agg.studies) /\ agg.i >= 2
    /\ DOMAIN agg.groups = {"Unknown"}
    /\ agg.groups["Unknown"] = agg.i

\* C7: a make_request call that finds 100 or more unexpired timestamps suspends
\* once, for 60 - (now - oldest) seconds, when that is positive (59 seconds for a
\* call one second after 100 calls); a call that finds fewer does not suspend.
C7_Suspension ==
    pc = "mr_append" =>
        /\ (hist.seenLen >= 100 /\ 60 - (hist.seenNow - hist.seenOldest) > 0) =>
              /\ hist.slept = 1
              /\ hist.waited = 60 - (hist.seenNow - hist.seenOldest)
        /\ (hist.seenLen >= 100 /\ 60 - (hist.seenNow - hist.seenOldest) <= 0) =>
              hist.slept = 0
        /\ hist.seenLen < 100 => hist.slept = 0 /\ hist.waited = 0
        /\ (hist.seenLen = 100 /\ hist.seenOldest = 0 /\ hist.seenNow = 1) =>
              hist.waited = 59

C7_Witness ==
    /\ pc = "mr_append" /\ hist.seenLen = 100 /\ hist.seenNow - hist.seenOldest = 1
    /\ hist.slept = 1 /\ hist.waited = 59

\* the pages a run has read, as <<number of records, token present>>
PageShapes == [i \in DOMAIN hist.pages |-> <<hist.pages[i].n, hist.pages[i].tok>>]

\* C8: a page that was followed by a further request had records, carried a
\* token and left the accumulated count below limit; with limit 250 and pages of
\* 100, 100 and 50 records, tokens on the first two only, the run issues three
\* requests and returns the 250 records.
C8_StopConditions ==
    caller = "fetch" =>
        /\ \A i \in DOMAIN hist.pages :
              i < hist.calls =>
                  /\ hist.pages[i].n > 0
                  /\ hist.pages[i].tok
                  /\ Served(hist.pages, i) < limit
        /\ (FetchDone /\ limit = 250
               /\ PageShapes = << <<100, TRUE>>, <<100, TRUE>>, <<50, FALSE>> >>) =>
              /\ hist.calls = 3
              /\ ret = FetchResult(Ids(0, 250), 250)

C8_Witness ==
    /\ FetchDone /\ limit = 250 /\ hist.calls = 3
    /\ PageShapes = << <<100, TRUE>>, <<100, TRUE>>, <<50, FALSE>> >>
    /\ Len(ret.studies) = 250

\* C9: every make_request call appends exactly one timestamp, before the GET is
\* dispatched, and the timestamp stays in the queue whatever the GET's outcome.
C9_OneStampBeforeGet ==
    /\ pc \in {"mr_prune", "mr_check", "mr_append"} =>
          hist.appends = hist.calls - 1 /\ hist.gets = hist.calls - 1
    /\ pc = "mr_get" =>
          /\ hist.appends = hist.calls /\ hist.gets = hist.calls - 1
          /\ Last(request_timestamps) = hist.stamp
    /\ pc \in {"fs_page", "gd_ret", "fs_loop", "done"} =>
          /\ hist.appends = hist.calls /\ hist.gets = hist.calls
          /\ hist.calls > 0 =>
                /\ request_timestamps # <<>>
                /\ Last(request_timestamps) = hist.stamp

C9_Witness ==
    /\ pc = "done" /\ ret.kind = "error" /\ hist.slept = 1
    /\ hist.calls = 1 /\ hist.appends = 1 /\ Last(request_timestamps) = hist.stamp

\* C10: in every result of fetch_studies totalCount is the sum of the record
\* counts of the pages read, which is the length of the 'studies' list.
C10_TotalIsRetrieved ==
    (FetchDone /\ ret.kind = "result") =>
        /\ ret.totalCount = Served(hist.pages, Len(hist.pages))
        /\ ret.totalCount = Len(ret.studies)

C10_Witness ==
    /\ FetchDone /\ ret.kind = "result" /\ Len(hist.pages) = 2
    /\ limit = 2 /\ ret.totalCount = 2 /\ data.totalCount = 3000

\* C11: every turn of fetch_studies' loop either leaves the loop or makes the
\* accumulated list strictly longer while it is shorter than limit, so a run
\* issues at most limit requests, whatever the upstream answers.
C11_LoopProgress ==
    /\ [][(pc = "fs_page" /\ pc' # "fs_page") =>
            \/ pc' = "done"
            \/ /\ pc' = "fs_loop"
               /\ Len(all_studies') > Len(all_studies)
               /\ Len(all_studies) < limit]_vars
    /\ [](caller = "fetch" =>
            /\ hist.calls <= (IF limit > 0 THEN limit ELSE 0)
            /\ hist.calls <= Len(all_studies) + 1)

C11_Witness ==
    /\ pc = "fs_loop" /\ caller = "fetch" /\ upTotal = 3000 /\ limit = 1001
    /\ Len(hist.pages) = 3 /\ \A i \in 1..3 : hist.pages[i].tok
    /\ Len(all_studies) < limit

C13_TokenChain ==
    caller = "fetch" =>
        /\ hist.calls - Len(hist.outcomes) \in {0, 1}
        /\ \A i \in DOMAIN hist.pages :
              /\ i = 1 => hist.pages[i].sent = NoToken
              /\ i > 1 => /\ hist.pages[i].sent = hist.pages[i - 1].next
                          /\ hist.pages[i].sent # NoToken
        /\ pc \in {"mr_prune", "mr_check", "mr_append", "mr_get"} =>
              params.pageToken = (IF hist.pages = <<>> THEN NoToken
                                  ELSE Last(hist.pages).next)

C13_Witness ==
    /\ caller = "fetch" /\ Len(hist.pages) = 3
    /\ hist.pages[1].sent = NoToken
    /\ hist.pages[2].sent = hist.pages[1].next
    /\ hist.pages[3].sent = hist.pages[2].next
    /\ hist.pages[3].sent # hist.pages[2].sent

\* C17: a fetch_studies run with limit <= 0 issues no request, leaves the
\* limiter queue as it was and returns {studies: [], totalCount: 0}.
C17_NothingToFetch ==
    [][(caller' = "fetch" /\ limit' <= 0) =>
          /\ request_timestamps' = request_timestamps
          /\ hist'.calls = 0
          /\ hist'.gets = 0
          /\ pc' \in {"fs_loop", "done"}
          /\ pc' = "done" => ret' = [kind |-> "result", studies |-> <<>>, totalCount |-> 0]]_vars

C17_Witness ==
    /\ FetchDone /\ limit = -1 /\ hist.calls = 0
    /\ ret = [kind |-> "result", studies |-> <<>>, totalCount |-> 0]

\* C14: the timestamp queue is in chronological order, oldest first, and after
\* the eviction from the front no entry older than 60 seconds is left in it.
C14_Chronological ==
    /\ \A i \in 1..(Len(request_timestamps) - 1) :
          request_timestamps[i] <= request_timestamps[i + 1]
    /\ (pc = "mr_check" \/ (pc = "mr_append" /\ hist.slept = 1)) =>
          \A i \in DOMAIN request_timestamps :
              current_time - request_timestamps[i] <= WINDOW

C14_Witness ==
    /\ pc = "mr_get" /\ hist.slept = 1
    /\ Len(request_timestamps) = RATE_LIMIT
    /\ Head(request_timestamps) = 1
    /\ Last(request_timestamps) > Head(request_timestamps)

\* C15: a make_request call is suspended at most once, for a wait of 1 to 60
\* seconds, and every call that entered the limiter appends its timestamp and
\* reaches the HTTP request.
C15_DelayedOnce ==
    /\ [](/\ hist.slept <= 1
          /\ hist.slept = 1 => (hist.waited >= 1 /\ hist.waited <= WINDOW))
    /\ (pc = "mr_prune") ~>
          (/\ pc = "mr_get"
           /\ hist.appends = hist.calls
           /\ Last(request_timestamps) = hist.stamp)

C15_Witness ==
    /\ pc = "mr_get" /\ hist.slept = 1 /\ hist.waited = 59
    /\ hist.appends = 1 /\ Last(request_timestamps) = hist.stamp

\* both flows are past the length test of line 44, which they made on the same
\* content of the deque
BothPassed ==
    /\ flows.f # <<>>
    /\ \A f \in FlowIds : flows.f[f].pc \in {"mr_append", "mr_get"}
    /\ flows.f[1].seenVer = flows.f[2].seenVer

\* C16: without a lock two flows can both pass the length test on the same
\* queue content and both append, which adds two timestamps to a queue tested
\* once; with the prune-check-wait-append sequence under mutual exclusion no
\* two flows are inside the sequence together and none passes the test on the
\* content another one passed it on.
C16_RaceOnlyWithoutLock ==
    flows.f # <<>> =>
        /\ flows.useLock =>
              /\ ~BothPassed
              /\ Cardinality({f \in FlowIds :
                     flows.f[f].pc \in {"mr_prune", "mr_check", "mr_append"}}) <= 1
        /\ (/\ BothPassed
            /\ \A f \in FlowIds : flows.f[f].pc = "mr_get" /\ ~flows.f[f].slept) =>
              /\ ~flows.useLock
              /\ flows.f[1].seenLen = flows.f[2].seenLen
              /\ Len(request_timestamps) = flows.f[1].seenLen + 2

C16_Witness ==
    /\ BothPassed
    /\ ~flows.useLock
    /\ \A f \in FlowIds : flows.f[f].pc = "mr_get" /\ flows.f[f].seenLen = RATE_LIMIT - 1
    /\ Len(request_timestamps) = RATE_LIMIT + 1
    /\ Cardinality(Unexpired) > RATE_LIMIT

====
